---- MODULE Spec2Model ----
(***************************************************************************)
(* Hexapawn rules library (src/src/hexapawn/__init__.py): the Squares      *)
(* enumeration and its coordinate arithmetic, Move and its UCI factory,    *)
(* and Board with clear / reset / is_legal / generate_legal_moves.         *)
(*                                                                         *)
(* Python values are encoded as follows.  Color is Python's bool, which is *)
(* an int: WHITE = True = 1, BLACK = False = 0; the bitwise inversion ~x   *)
(* of a bool is the int -x-1.  None, where it stands for "no piece"        *)
(* (Optional[Color]), is an integer no Color and no inversion of a Color   *)
(* equals; None, where it stands for "no coordinates"                      *)
(* (tuple[int, int] | None), is NoCoords.  Python tuples and lists are     *)
(* indexed from 0, TLA+ sequences from 1: coords[0] is coords[1] here.     *)
(* A str is the sequence of its characters, each its code point (ord).     *)
(***************************************************************************)
EXTENDS Integers, Sequences, FiniteSets

VARIABLES
    board,      \* the Board instance: [_board |-> file -> rank -> piece, turn |-> Color]
    origin,     \* what last wrote the board: "position", "__init__", "clear", "reset"
    op,         \* the operation that ran last ("" before any)
    move,       \* is_legal: its argument
    legal,      \* is_legal: its return value
    iter,       \* the generator legal_moves returned last (NoIter: none)
    moves,      \* the Moves that generator has yielded so far, in order
    square,     \* Squares methods: self
    target,     \* can_advance_to: target_square
    color,      \* Squares methods: player_color
    left,       \* _change_file: left
    coords,     \* _advance_rank / _change_file: the return value
    can,        \* can_advance_to: the return value
    candidates, \* capture_candidates: the return value
    uci,        \* Move.from_uci: its argument
    raised,     \* the exception the last operation raised ("" when it returned)
    parsed      \* Move.from_uci: the Move it returns

vars == <<board, origin, op, move, legal, iter, moves, square, target, color, left,
          coords, can, candidates, uci, raised, parsed>>

boardVars == <<board, origin, move, legal, iter, moves>>
squareVars == <<square, target, color, left, coords, can, candidates>>
moveVars == <<uci, parsed>>

----------------------------------------------------------------------------
(* Bounds *)

\* Positions given to the Board operations hold at most this many pawns, of
\* either colour.
MaxPawns == 3

\* UCI strings given to Move.from_uci have at most this many characters.
MaxUciLen == 5

----------------------------------------------------------------------------
(* Color, None *)

WHITE == 1

BLACK == 0

None == -9

NoCoords == <<>>

Colors == {WHITE, BLACK}

\* Python's `not x` for x a Color or None: None and False are falsy.
py_not(x) == x = None \/ x = 0

\* Python's `~x` for a bool (an int): -x - 1.
py_invert(x) == 0 - x - 1

\* Truth value of a `tuple | None`: None and the empty tuple are falsy.
py_truthy(t) == t /= NoCoords /\ Len(t) > 0

----------------------------------------------------------------------------
(* class Squares(Enum) *)

\* The members in definition order, each with its name ("A1" is <<65, 49>>,
\* ..., "C3" is <<67, 51>>) and its value (file, rank).  Iterating the enum
\* yields them in this order.
Squares ==
    << [name |-> <<65, 49>>, value |-> <<0, 0>>],
       [name |-> <<65, 50>>, value |-> <<0, 1>>],
       [name |-> <<65, 51>>, value |-> <<0, 2>>],
       [name |-> <<66, 49>>, value |-> <<1, 0>>],
       [name |-> <<66, 50>>, value |-> <<1, 1>>],
       [name |-> <<66, 51>>, value |-> <<1, 2>>],
       [name |-> <<67, 49>>, value |-> <<2, 0>>],
       [name |-> <<67, 50>>, value |-> <<2, 1>>],
       [name |-> <<67, 51>>, value |-> <<2, 2>>] >>

SquareSet == {Squares[i] : i \in 1..Len(Squares)}

\* Squares[name]: the member of that name.
SquareNamed(name) == CHOOSE s \in SquareSet : s.name = name

\* Squares(value), written self.__class__(coords): the member of that value.
SquareOf(value) == CHOOSE s \in SquareSet : s.value = value

A1 == SquareNamed(<<65, 49>>)
A2 == SquareNamed(<<65, 50>>)
A3 == SquareNamed(<<65, 51>>)
B1 == SquareNamed(<<66, 49>>)
B2 == SquareNamed(<<66, 50>>)
B3 == SquareNamed(<<66, 51>>)
C1 == SquareNamed(<<67, 49>>)
C2 == SquareNamed(<<67, 50>>)
C3 == SquareNamed(<<67, 51>>)

_advance_rank(coords_, player_color) ==
    LET new_coords == << coords_[1],
                         coords_[2] + (IF player_color = WHITE THEN 1 ELSE -1) >>
    IN  IF new_coords[2] < 0 \/ new_coords[2] > 2
        THEN NoCoords
        ELSE new_coords

\* _change_file with the upper file bound off by one (file 2 taken to be off
\* the board).
_change_file_short_board(coords_, left_) ==
    LET new_coords == << coords_[1] + (IF left_ THEN -1 ELSE 1),
                         coords_[2] >>
    IN  IF new_coords[1] < 0 \/ new_coords[1] >= 2
        THEN NoCoords
        ELSE new_coords

_change_file(coords_, left_) ==
    LET new_coords == << coords_[1] + (IF left_ THEN -1 ELSE 1),
                         coords_[2] >>
    IN  IF new_coords[1] < 0 \/ new_coords[1] > 2
        THEN NoCoords
        ELSE new_coords

\* can_advance_to that moves every colour up the board, as White moves.
can_advance_to_white_only(self, target_square, player_color) ==
    IF self.value[1] /= target_square.value[1]
    THEN FALSE
    ELSE self.value[2] + 1 = target_square.value[2]

can_advance_to(self, target_square, player_color) ==
    LET source_file == self.value[1]
        source_rank == self.value[2]
        target_file == target_square.value[1]
        target_rank == target_square.value[2]
        delta_rank  == IF player_color = WHITE THEN 1 ELSE -1
    IN  IF source_file /= target_file
        THEN FALSE
        ELSE source_rank + delta_rank = target_rank

\* The list candidate_coords of capture_candidates, given the advanced
\* coordinates: for left in [True, False], the changed-file coordinates that
\* are truthy.
candidate_coords(rank_advanced_coords) ==
    LET l == _change_file(rank_advanced_coords, TRUE)
        r == _change_file(rank_advanced_coords, FALSE)
    IN  (IF py_truthy(l) THEN <<l>> ELSE <<>>) \o
        (IF py_truthy(r) THEN <<r>> ELSE <<>>)

\* Whether capture_candidates fails its assertion.
capture_candidates_asserts(self, player_color) ==
    LET rank_advanced_coords == _advance_rank(self.value, player_color)
    IN  /\ rank_advanced_coords /= NoCoords
        /\ ~(Len(candidate_coords(rank_advanced_coords)) > 0)

capture_candidates(self, player_color) ==
    LET rank_advanced_coords == _advance_rank(self.value, player_color)
    IN  IF rank_advanced_coords = NoCoords
        THEN {}
        ELSE LET cc == candidate_coords(rank_advanced_coords)
             IN  {SquareOf(cc[i]) : i \in 1..Len(cc)}

----------------------------------------------------------------------------
(* class Move *)

Move(from_square, to_square) ==
    [from_square |-> from_square, to_square |-> to_square]

\* itertools.combinations(xs, 2) in place of product: only the pairs whose
\* first component comes before the second.
product_as_combinations(xs, ys) ==
    LET all == [k \in 1..(Len(xs) * Len(ys)) |->
                   << ((k - 1) \div Len(ys)) + 1, ((k - 1) % Len(ys)) + 1 >>]
        Ascending(ij) == ij[1] < ij[2]
        kept == SelectSeq(all, Ascending)
    IN  [k \in 1..Len(kept) |-> << xs[kept[k][1]], ys[kept[k][2]] >>]

\* itertools.product(xs, ys): the pairs, the first component outermost.
product(xs, ys) ==
    [k \in 1..(Len(xs) * Len(ys)) |->
        << xs[((k - 1) \div Len(ys)) + 1], ys[((k - 1) % Len(ys)) + 1] >>]

----------------------------------------------------------------------------
(* class Board *)

piece_at(self, sq) == self._board[sq.value[1]][sq.value[2]]

\* self._board[file][rank] = piece, for the coordinates of sq.
SetPiece(self, sq, piece) ==
    [self EXCEPT !._board[sq.value[1]][sq.value[2]] = piece]

\* clear that also hands the move to White, as reset does.
clear_and_white_to_move(self) ==
    [self EXCEPT !._board = [i \in 0..2 |-> [j \in 0..2 |-> None]],
                 !.turn = WHITE]

clear(self) ==
    [self EXCEPT !._board = [i \in 0..2 |-> [j \in 0..2 |-> None]]]

reset(self) ==
    LET w1 == SetPiece(self, A1, WHITE)
        w2 == SetPiece(w1, B1, WHITE)
        w3 == SetPiece(w2, C1, WHITE)
        b1 == SetPiece(w3, A3, BLACK)
        b2 == SetPiece(b1, B3, BLACK)
        b3 == SetPiece(b2, C3, BLACK)
    IN  [b3 EXCEPT !.turn = WHITE]

\* Board(): the list of lists of None, turn WHITE, then self.clear().reset().
__init__ ==
    LET self == [_board |-> [i \in 0..2 |-> [j \in 0..2 |-> None]],
                 turn   |-> WHITE]
    IN  reset(clear(self))

is_legal(self, m) ==
    IF ~(piece_at(self, m.from_square) = self.turn)
    THEN FALSE
    ELSE IF /\ can_advance_to(m.from_square, m.to_square, self.turn)
            /\ py_not(piece_at(self, m.to_square))
         THEN TRUE
         ELSE IF /\ m.to_square \in capture_candidates(m.from_square, self.turn)
                 /\ piece_at(self, m.to_square) = py_invert(self.turn)
              THEN TRUE
              ELSE FALSE

\* The generator generate_legal_moves returns.  It is lazy: creating it tests
\* no move; it holds the Board itself (self, not a copy) and the position k
\* it has reached in product(Squares, Squares), and is done once next() has
\* raised StopIteration.
generate_legal_moves(self) == [k |-> 1, done |-> FALSE]

legal_moves(self) == generate_legal_moves(self)

\* product(Squares, Squares), the pairs the generator expression runs over.
SquarePairs == product(Squares, Squares)

\* Where next() stops: the first position from k on whose Move passes
\* is_legal on the board as it is now, or Len(SquarePairs) + 1 if there is
\* none.
RECURSIVE NextLegal(_, _)
NextLegal(self, k) ==
    IF k > Len(SquarePairs)
    THEN k
    ELSE IF is_legal(self, Move(SquarePairs[k][1], SquarePairs[k][2]))
         THEN k
         ELSE NextLegal(self, k + 1)

\* The generator after next() stopped at position j, and what it yields there
\* (no Move when it raises StopIteration).
generator_at(j) ==
    IF j > Len(SquarePairs)
    THEN [gen |-> [k |-> j, done |-> TRUE], yielded |-> <<>>]
    ELSE [gen |-> [k |-> j + 1, done |-> FALSE],
          yielded |-> << Move(SquarePairs[j][1], SquarePairs[j][2]) >>]

\* next(generator) on the board as it is now.
generator_next(self, gen) == generator_at(NextLegal(self, gen.k))

----------------------------------------------------------------------------
(* Move.from_uci *)

\* The characters the UCI strings are drawn from: files in and out of range
\* (a, c, d), ranks in and out of range (1, 3, 4), an upper-case letter (A),
\* and whitespace (blank, tab, no-break space).
Chars == {97, 99, 100, 49, 51, 52, 65, 32, 9, 160}

\* The characters str.strip() removes: those for which str.isspace() holds.
Whitespace ==
    (9..13) \cup (28..32) \cup {133, 160, 5760} \cup (8192..8202)
        \cup {8232, 8233, 8239, 8287, 12288}

\* str.lower() and str.upper() on one character, for the ASCII letters.  No
\* other character has a lower case among a, b, c, 1, 2, 3, and upper() is
\* applied to matched labels only.
char_lower(c) == IF c \in 65..90 THEN c + 32 ELSE c

char_upper(c) == IF c \in 97..122 THEN c - 32 ELSE c

\* str.lower() and str.upper()
lower(s) == [i \in 1..Len(s) |-> char_lower(s[i])]

upper(s) == [i \in 1..Len(s) |-> char_upper(s[i])]

\* str.strip(): without its leading and trailing whitespace.
RECURSIVE lstrip(_)
lstrip(s) ==
    IF Len(s) > 0 /\ Head(s) \in Whitespace THEN lstrip(Tail(s)) ELSE s

RECURSIVE rstrip(_)
rstrip(s) ==
    IF Len(s) > 0 /\ s[Len(s)] \in Whitespace
    THEN rstrip(SubSeq(s, 1, Len(s) - 1))
    ELSE s

strip(s) == rstrip(lstrip(s))

\* re.match("([abc][1-3])([abc][1-3])", text): the pattern matches at the
\* start of text; whatever follows the fourth character is not looked at.
\* a, b, c are 97..99 and 1, 2, 3 are 49..51.
re_match(text) ==
    /\ Len(text) >= 4
    /\ text[1] \in 97..99
    /\ text[2] \in 49..51
    /\ text[3] \in 97..99
    /\ text[4] \in 49..51

\* Whether from_uci raises ValueError.
from_uci_raises(uci_) == ~re_match(strip(lower(uci_)))

\* The Move from_uci returns when it does not raise.
from_uci(uci_) ==
    LET text     == strip(lower(uci_))
        from_uci_ == SubSeq(text, 1, 2)
        to_uci    == SubSeq(text, 3, 4)
    IN  Move(SquareNamed(upper(from_uci_)), SquareNamed(upper(to_uci)))

----------------------------------------------------------------------------
(* Values of the variables an operation does not set *)

NoSquare == [name |-> <<>>, value |-> NoCoords]

NoMove == Move(NoSquare, NoSquare)

AllMoves == {Move(f, t) : f \in SquareSet, t \in SquareSet}

\* No generator yet.  A generator is followed with the Board as it was when
\* legal_moves was called (called_on) and with whether clear() or reset()
\* has run on the Board since (written).
NoIter ==
    [alive |-> FALSE, k |-> 0, done |-> FALSE,
     called_on |-> __init__, written |-> FALSE]

BoardIdle ==
    /\ board = __init__
    /\ origin = "__init__"
    /\ move = NoMove
    /\ legal = FALSE
    /\ iter = NoIter
    /\ moves = <<>>

SquaresIdle ==
    /\ square = NoSquare
    /\ target = NoSquare
    /\ color = WHITE
    /\ left = FALSE
    /\ coords = NoCoords
    /\ can = FALSE
    /\ candidates = {}

MoveIdle ==
    /\ uci = <<>>
    /\ parsed = NoMove

----------------------------------------------------------------------------
(* Board: its operations called on any position *)

PawnCount(p) == Cardinality({s \in SquareSet : p[s.value[1]][s.value[2]] /= None})

\* The boards: every occupancy of the nine squares with at most MaxPawns
\* pawns.
Positions ==
    {p \in [0..2 -> [0..2 -> {WHITE, BLACK, None}]] : PawnCount(p) <= MaxPawns}

Init ==
    /\ board \in {[_board |-> p, turn |-> t] : p \in Positions, t \in Colors}
    /\ origin = "position"
    /\ op = ""
    /\ move = NoMove
    /\ legal = FALSE
    /\ iter = NoIter
    /\ moves = <<>>
    /\ raised = ""
    /\ SquaresIdle
    /\ MoveIdle

\* A generator at hand sees every write to the Board it holds.
Written == IF iter.alive THEN [iter EXCEPT !.written = TRUE] ELSE iter

\* Board(): a new Board; the generator of the Board it replaces goes with it.
Construct ==
    /\ board' = __init__
    /\ origin' = "__init__"
    /\ op' = "__init__"
    /\ move' = NoMove /\ legal' = FALSE
    /\ iter' = NoIter /\ moves' = <<>>
    /\ raised' = ""
    /\ UNCHANGED <<squareVars, moveVars>>

Clear ==
    /\ board' = clear(board)
    /\ origin' = "clear"
    /\ op' = "clear"
    /\ move' = NoMove /\ legal' = FALSE
    /\ iter' = Written
    /\ raised' = ""
    /\ UNCHANGED <<moves, squareVars, moveVars>>

Reset ==
    /\ board' = reset(board)
    /\ origin' = "reset"
    /\ op' = "reset"
    /\ move' = NoMove /\ legal' = FALSE
    /\ iter' = Written
    /\ raised' = ""
    /\ UNCHANGED <<moves, squareVars, moveVars>>

\* is_legal reads the board and writes nothing, so a call that follows
\* another, or that comes while a generator is at hand, reaches no board and
\* no result that a call on its own does not reach: those calls are left out.
IsLegal(m) ==
    /\ op /= "is_legal"
    /\ ~iter.alive
    /\ move' = m
    /\ legal' = is_legal(board, m)
    /\ op' = "is_legal"
    /\ raised' = ""
    /\ UNCHANGED <<board, origin, iter, moves, squareVars, moveVars>>

\* it = board.legal_moves: the generator is created and nothing is tested.
GenerateLegalMoves ==
    /\ iter' = [alive     |-> TRUE,
                k         |-> legal_moves(board).k,
                done      |-> legal_moves(board).done,
                called_on |-> board,
                written   |-> FALSE]
    /\ moves' = <<>>
    /\ op' = "legal_moves"
    /\ move' = NoMove /\ legal' = FALSE
    /\ raised' = ""
    /\ UNCHANGED <<board, origin, squareVars, moveVars>>

\* next(it): runs the generator on the board as it is now, up to the next
\* Move it yields or to StopIteration.
IterNext ==
    /\ iter.alive /\ ~iter.done
    /\ \E r \in {generator_next(board, [k |-> iter.k, done |-> iter.done])} :
          /\ iter' = [iter EXCEPT !.k = r.gen.k, !.done = r.gen.done]
          /\ moves' = moves \o r.yielded
          /\ raised' = IF r.gen.done THEN "StopIteration" ELSE ""
    /\ op' = "next"
    /\ move' = NoMove /\ legal' = FALSE
    /\ UNCHANGED <<board, origin, squareVars, moveVars>>

Next ==
    \/ Construct
    \/ Clear
    \/ Reset
    \/ \E m \in AllMoves : IsLegal(m)
    \/ GenerateLegalMoves
    \/ IterNext

Spec == Init /\ [][Next]_vars

----------------------------------------------------------------------------
(* Squares: the coordinate arithmetic on every square and colour *)

InitSquares ==
    /\ square \in SquareSet
    /\ target \in SquareSet
    /\ color \in Colors
    /\ left \in BOOLEAN
    /\ coords = NoCoords
    /\ can = FALSE
    /\ candidates = {}
    /\ op = ""
    /\ raised = ""
    /\ BoardIdle
    /\ MoveIdle

AdvanceRank ==
    /\ coords' = _advance_rank(square.value, color)
    /\ op' = "_advance_rank"
    /\ raised' = ""
    /\ can' = FALSE /\ candidates' = {}
    /\ UNCHANGED <<square, target, color, left, boardVars, moveVars>>

ChangeFile ==
    /\ coords' = _change_file(square.value, left)
    /\ op' = "_change_file"
    /\ raised' = ""
    /\ can' = FALSE /\ candidates' = {}
    /\ UNCHANGED <<square, target, color, left, boardVars, moveVars>>

CanAdvanceTo ==
    /\ can' = can_advance_to(square, target, color)
    /\ op' = "can_advance_to"
    /\ raised' = ""
    /\ coords' = NoCoords /\ candidates' = {}
    /\ UNCHANGED <<square, target, color, left, boardVars, moveVars>>

CaptureCandidates ==
    /\ IF capture_candidates_asserts(square, color)
       THEN raised' = "AssertionError" /\ candidates' = {}
       ELSE raised' = "" /\ candidates' = capture_candidates(square, color)
    /\ op' = "capture_candidates"
    /\ coords' = NoCoords /\ can' = FALSE
    /\ UNCHANGED <<square, target, color, left, boardVars, moveVars>>

NextSquares ==
    \/ AdvanceRank
    \/ ChangeFile
    \/ CanAdvanceTo
    \/ CaptureCandidates

SpecSquares == InitSquares /\ [][NextSquares]_vars

----------------------------------------------------------------------------
(* Move.from_uci on every string of at most MaxUciLen characters *)

UciStrings == UNION {[1..n -> Chars] : n \in 0..MaxUciLen}

InitMove ==
    /\ uci \in UciStrings
    /\ parsed = NoMove
    /\ op = ""
    /\ raised = ""
    /\ BoardIdle
    /\ SquaresIdle

FromUci ==
    /\ op = ""
    /\ IF from_uci_raises(uci)
       THEN raised' = "ValueError" /\ parsed' = NoMove
       ELSE raised' = "" /\ parsed' = from_uci(uci)
    /\ op' = "from_uci"
    /\ UNCHANGED <<uci, boardVars, squareVars>>

NextMove == FromUci

SpecMove == InitMove /\ [][NextMove]_vars

----------------------------------------------------------------------------
(* What the claims speak of, stated without the code's operators *)

Opposite(c) == IF c = WHITE THEN BLACK ELSE WHITE

\* The direction a pawn of colour c moves in: rank+1 for White, rank-1 for
\* Black.
Forward(c) == IF c = WHITE THEN 1 ELSE -1

Abs(n) == IF n < 0 THEN 0 - n ELSE n

\* The squares diagonally ahead of s for colour c.
DiagonalAhead(s, c) ==
    {t \in SquareSet : /\ t.value[2] = s.value[2] + Forward(c)
                       /\ Abs(t.value[1] - s.value[1]) = 1}

\* The squares directly ahead of s for colour c (none or one).
DirectlyAhead(s, c) ==
    {t \in SquareSet : /\ t.value[2] = s.value[2] + Forward(c)
                       /\ t.value[1] = s.value[1]}

ForwardRankOnBoard(s, c) == s.value[2] + Forward(c) \in 0..2

\* Position of a Move in the canonical order: from-square outermost, both
\* in enum order.
SquareIndex(s) == CHOOSE i \in 1..Len(Squares) : Squares[i] = s

MoveIndex(m) ==
    (SquareIndex(m.from_square) - 1) * Len(Squares) + SquareIndex(m.to_square)

\* The canonical starting layout.
StartLayout ==
    [f \in 0..2 |-> [r \in 0..2 |->
        IF r = 0 THEN WHITE ELSE IF r = 2 THEN BLACK ELSE None]]

\* A board with every rank mirrored, every colour swapped and the other
\* side to move; a move with both squares rank-mirrored.
MirrorPiece(x) == IF x = None THEN None ELSE Opposite(x)

MirrorBoard(b) ==
    [_board |-> [f \in 0..2 |-> [r \in 0..2 |-> MirrorPiece(b._board[f][2 - r])]],
     turn   |-> Opposite(b.turn)]

MirrorSquare(s) == SquareOf(<<s.value[1], 2 - s.value[2]>>)

MirrorMove(m) == Move(MirrorSquare(m.from_square), MirrorSquare(m.to_square))

\* A string that is exactly two square labels: file a..c (97..99), rank 1..3
\* (49..51), twice.
TwoLabels(s) ==
    /\ Len(s) = 4
    /\ s[1] \in 97..99 /\ s[2] \in 49..51
    /\ s[3] \in 97..99 /\ s[4] \in 49..51

\* The square a label denotes: file a..c is 0..2, rank 1..3 is 0..2.
LabelSquare(f, r) == CHOOSE s \in SquareSet : s.value = <<f - 97, r - 49>>

\* Already in lower case, no whitespace at either end.
Plain(s) ==
    /\ \A i \in 1..Len(s) : s[i] \notin 65..90
    /\ Len(s) > 0 => (s[1] \notin Whitespace /\ s[Len(s)] \notin Whitespace)

\* The generator has been run to StopIteration.
Exhausted == iter.alive /\ iter.done

\* moves is exactly the Moves that pass is_legal on board b, each once, in
\* the canonical order.
ExactlyLegalOn(b) ==
    /\ \A k \in 1..Len(moves) :
          moves[k] \in AllMoves /\ is_legal(b, moves[k])
    /\ \A m \in AllMoves :
          is_legal(b, m) => \E k \in 1..Len(moves) : moves[k] = m
    /\ \A k, l \in 1..Len(moves) :
          k < l => MoveIndex(moves[k]) < MoveIndex(moves[l])

----------------------------------------------------------------------------
(* Claims *)

\* C1: whenever the from-square holds a pawn of the side to move, the
\* to-square is one of its capture candidates and holds a pawn of the
\* opposite colour, is_legal returns true (b2 takes a3 in particular).
C1_CaptureIsLegal ==
    ( /\ op = "is_legal"
      /\ piece_at(board, move.from_square) = board.turn
      /\ move.to_square \in capture_candidates(move.from_square, board.turn)
      /\ piece_at(board, move.to_square) = Opposite(board.turn) )
    => legal = TRUE

\* C2: advances never capture: when the to-square is the square directly
\* ahead of the from-square, is_legal returns true only if the to-square is
\* empty.
C2_AdvanceNeverCaptures ==
    ( /\ op = "is_legal"
      /\ can_advance_to(move.from_square, move.to_square, board.turn)
      /\ legal = TRUE )
    => piece_at(board, move.to_square) = None

\* C3: for every board state, the sequence legal_moves produces for it is
\* exactly the moves among the 81 square pairs that pass is_legal on that
\* board, each once, in the canonical order (from-square outermost, both in
\* enum order).  The generator is lazy and reads the board at each next();
\* the claim is about one board state, so it is stated on iterations during
\* which the board was not written (it is then still the board legal_moves
\* was called on).
C3_LegalMovesExact ==
    (Exhausted /\ ~iter.written) =>
        (board = iter.called_on /\ ExactlyLegalOn(board))

C3_Witness ==
    /\ Exhausted
    /\ ~iter.written
    /\ origin = "position"
    /\ board.turn = BLACK
    /\ Len(moves) >= 2
    /\ \E k \in 1..Len(moves) : moves[k].from_square /= moves[1].from_square

\* C4: on a freshly constructed or freshly reset board, White to move,
\* legal_moves yields exactly a1->a2, b1->b2, c1->c2 (the board is left
\* alone while the moves are drawn).
C4_FreshBoardThreeMoves ==
    ( /\ Exhausted /\ ~iter.written
      /\ origin \in {"__init__", "reset"}
      /\ board.turn = WHITE )
    => moves = << Move(A1, A2), Move(B1, B2), Move(C1, C2) >>

\* C4, the part of it about construction alone: on a board Board() has just
\* built, legal_moves yields exactly a1->a2, b1->b2, c1->c2.
C4_ConstructedBoardThreeMoves ==
    ( /\ Exhausted /\ ~iter.written
      /\ origin = "__init__" )
    => moves = << Move(A1, A2), Move(B1, B2), Move(C1, C2) >>

\* C5: after reset(), whatever the board held before, the board is the
\* canonical starting layout with White to move.
C5_ResetRestoresStart ==
    op = "reset" => board = [_board |-> StartLayout, turn |-> WHITE]

\* C6: from_uci returns a Move exactly when its input is two concatenated
\* square labels, and then the Move of those two squares; every other input
\* raises ValueError.  Stated for the inputs that are in lower case and have
\* no blank at either end, which are the inputs the claim's examples are.
C6_FromUciExactlyTwoLabels ==
    (op = "from_uci" /\ Plain(uci)) =>
        /\ (raised = "") <=> TwoLabels(uci)
        /\ raised /= "" => (raised = "ValueError" /\ parsed = NoMove)
        /\ raised = "" =>
              parsed = Move(LabelSquare(uci[1], uci[2]), LabelSquare(uci[3], uci[4]))

\* C7: capture_candidates never fails its assertion and returns exactly the
\* on-board squares one rank forward and one file to either side: none when
\* the forward rank is off the board, one from file 0 or 2, two from file 1.
C7_CaptureCandidates ==
    op = "capture_candidates" =>
        /\ raised = ""
        /\ candidates = DiagonalAhead(square, color)
        /\ Cardinality(candidates) =
              IF ~ForwardRankOnBoard(square, color) THEN 0
              ELSE IF square.value[1] = 1 THEN 2 ELSE 1

C7_Witness ==
    /\ op = "capture_candidates"
    /\ color = BLACK
    /\ Cardinality(candidates) = 2

\* C8: _advance_rank returns None iff the square is on the farthest rank in
\* the colour's direction, and otherwise the coordinates with the same file
\* and the rank shifted by +1 / -1; can_advance_to(s, t, c) is true iff t is
\* that advance target.
C8_AdvanceTarget ==
    /\ op = "_advance_rank" =>
          /\ (coords = NoCoords) <=>
                (square.value[2] = (IF color = WHITE THEN 2 ELSE 0))
          /\ coords /= NoCoords =>
                coords = <<square.value[1], square.value[2] + Forward(color)>>
    /\ op = "can_advance_to" =>
          (can <=> target \in DirectlyAhead(square, color))

C8_Witness ==
    /\ op = "can_advance_to"
    /\ color = BLACK
    /\ can = TRUE

\* C9: clear() leaves every square empty and side-to-move as it was.
C9_ClearKeepsTurn ==
    [][ op' = "clear" =>
            /\ \A s \in SquareSet : piece_at(board', s) = None
            /\ board'.turn = board.turn ]_vars

C9_Witness ==
    /\ op = "clear"
    /\ origin = "clear"
    /\ board.turn = BLACK
    /\ \A s \in SquareSet : piece_at(board, s) = None

\* C10: legality is symmetric: is_legal(m) on a board equals is_legal of the
\* rank-mirrored move on the board with ranks mirrored, colours swapped and
\* the other side to move.
C10_ColourSymmetry ==
    op = "is_legal" => legal = is_legal(MirrorBoard(board), MirrorMove(move))

=============================================================================
